---- MODULE Spec2Model ----
(***************************************************************************)
(* AnonymSQL (app.py): the identifier registry (NameMapper), the segmenter *)
(* (SEGMENT_RE), the USE scan, the forward and reverse rewrite rules and   *)
(* the Streamlit handlers that drive them.                                 *)
(*                                                                         *)
(* Texts are strings; a character is a string of length 1.  A Python dict  *)
(* is a sequence of <<key, value>> pairs in insertion order, since the     *)
(* order of the rewrite rules is the iteration order of the dicts.         *)
(***************************************************************************)
EXTENDS Integers, Sequences, FiniteSets, TLC

VARIABLES
    name_mapper,   \* st.session_state.name_mapper: [prefixes, mapping, inverse, counters]
    anonym_sql,    \* st.session_state["anonym_sql"]
    deanon_sql,    \* st.session_state["deanon_sql"]
    anon_src,      \* history: the text given to the anonymize_sql call that set anonym_sql
    anon_fresh,    \* history: that call started from a registry without any entry
    runs,          \* history: number of reruns of the script (user interactions) so far
    last           \* history: the last operation, its inputs and its results

vars == <<name_mapper, anonym_sql, deanon_sql, anon_src, anon_fresh, runs, last>>

----------------------------------------------------------------------------
(* Characters and strings *)

Ch(s, i) == SubSeq(s, i, i)

UpperLetters == "ABCDEFGHIJKLMNOPQRSTUVWXYZ"
LowerLetters == "abcdefghijklmnopqrstuvwxyz"
Digits == "0123456789"

CharsOf(s) == {Ch(s, i) : i \in 1..Len(s)}

UpperSet == CharsOf(UpperLetters)

Min(S) == CHOOSE x \in S : \A y \in S : x <= y
Max(S) == CHOOSE x \in S : \A y \in S : y <= x

\* [\w$] of the bare rules (ASCII part of \w, and "$")
WordChars == CharsOf(UpperLetters) \cup CharsOf(LowerLetters) \cup CharsOf(Digits) \cup {"_", "$"}

\* \w alone, for \b of USE_DB_RE
RegexW == WordChars \ {"$"}

\* \s
SpaceChars == {" ", "\t", "\n", "\r"}

\* [A-Za-z0-9_.$] of USE_DB_RE's plain group
UsePlainChars == WordChars \cup {"."}

\* re.IGNORECASE on one character
ToLower ==
    [c \in UpperSet |->
        Ch(LowerLetters, CHOOSE i \in 1..Len(UpperLetters) : Ch(UpperLetters, i) = c)]

LowerCh(c) == IF c \in UpperSet THEN ToLower[c] ELSE c

EqFold(a, b) ==
    /\ Len(a) = Len(b)
    /\ \A i \in 1..Len(a) : LowerCh(Ch(a, i)) = LowerCh(Ch(b, i))

\* the literal pat at position i of s, with or without IGNORECASE
LitAt(s, i, pat, icase) ==
    /\ i >= 1
    /\ i + Len(pat) - 1 <= Len(s)
    /\ IF icase THEN EqFold(SubSeq(s, i, i + Len(pat) - 1), pat)
                ELSE SubSeq(s, i, i + Len(pat) - 1) = pat

\* f"{n}" of a non-negative int
RECURSIVE IntToStr(_)
IntToStr(n) ==
    IF n < 10 THEN Ch(Digits, n + 1)
    ELSE IntToStr(n \div 10) \o Ch(Digits, (n % 10) + 1)

\* first index >= i where s has no character of set (Len(s)+1 when none)
SkipChars(s, i, set) ==
    CHOOSE j \in i..(Len(s) + 1) :
        /\ j = Len(s) + 1 \/ Ch(s, j) \notin set
        /\ \A k \in i..(j - 1) : Ch(s, k) \in set

\* str.strip()
RStrip(s) ==
    LET keep == {j \in 1..Len(s) : Ch(s, j) \notin SpaceChars}
    IN  IF keep = {} THEN "" ELSE SubSeq(s, 1, Max(keep))

Strip(s) == RStrip(SubSeq(s, SkipChars(s, 1, SpaceChars), Len(s)))

----------------------------------------------------------------------------
(* Python dicts in insertion order *)

DictHas(d, k) == \E i \in 1..Len(d) : d[i][1] = k

DictGet(d, k) == d[CHOOSE i \in 1..Len(d) : d[i][1] = k][2]

\* d[k] = v: an existing key keeps its place
DictSet(d, k, v) ==
    IF DictHas(d, k)
    THEN [i \in 1..Len(d) |-> IF d[i][1] = k THEN <<k, v>> ELSE d[i]]
    ELSE Append(d, <<k, v>>)

DictKeys(d) == {d[i][1] : i \in 1..Len(d)}
DictValues(d) == {d[i][2] : i \in 1..Len(d)}

----------------------------------------------------------------------------
(* NameMapper *)

Kinds == <<"database", "schema", "table", "column">>
KindSet == {Kinds[i] : i \in 1..Len(Kinds)}

DEFAULT_PREFIXES ==
    [k \in KindSet |-> CASE k = "database" -> "DB_"
                         [] k = "schema" -> "SC_"
                         [] k = "table" -> "T_"
                         [] k = "column" -> "C_"]

\* {v: k_ for k_, v in d.items()}
RECURSIVE InvertDict(_)
InvertDict(d) ==
    IF Len(d) = 0 THEN <<>>
    ELSE LET n == Len(d) IN DictSet(InvertDict(SubSeq(d, 1, n - 1)), d[n][2], d[n][1])

\* NameMapper.__init__ with both arguments given
NameMapperInit(mapping, prefixes) ==
    [prefixes |-> prefixes,
     mapping  |-> mapping,
     inverse  |-> [k \in DOMAIN mapping |-> InvertDict(mapping[k])],
     counters |-> [k \in DOMAIN mapping |-> Len(mapping[k]) + 1]]

\* NameMapper()
EmptyMapper == NameMapperInit([k \in KindSet |-> <<>>], DEFAULT_PREFIXES)

\* NameMapper.map (with _gen): the registry afterwards, the value returned,
\* and whether a KeyError was raised (a registry that lacks the kind).
NmMapSkipsLookup(nm, kind, original) ==
    IF original = "" THEN [nm |-> nm, ret |-> original, err |-> FALSE]
    ELSE IF kind \notin DOMAIN nm.mapping \/ kind \notin DOMAIN nm.prefixes
    THEN [nm |-> nm, ret |-> "", err |-> TRUE]
    ELSE LET alias == nm.prefixes[kind] \o IntToStr(nm.counters[kind])
         IN  [nm  |-> [nm EXCEPT !.counters[kind] = @ + 1,
                                 !.mapping[kind] = DictSet(@, original, alias),
                                 !.inverse[kind] = DictSet(@, alias, original)],
              ret |-> alias,
              err |-> FALSE]

NmMap(nm, kind, original) ==
    IF original = "" THEN [nm |-> nm, ret |-> original, err |-> FALSE]
    ELSE IF kind \notin DOMAIN nm.mapping
    THEN [nm |-> nm, ret |-> "", err |-> TRUE]
    ELSE IF DictHas(nm.mapping[kind], original)
    THEN [nm |-> nm, ret |-> DictGet(nm.mapping[kind], original), err |-> FALSE]
    ELSE IF kind \notin DOMAIN nm.prefixes
    THEN [nm |-> nm, ret |-> "", err |-> TRUE]
    ELSE LET alias == nm.prefixes[kind] \o IntToStr(nm.counters[kind])
         IN  [nm  |-> [nm EXCEPT !.counters[kind] = @ + 1,
                                 !.mapping[kind] = DictSet(@, original, alias),
                                 !.inverse[kind] = DictSet(@, alias, original)],
              ret |-> alias,
              err |-> FALSE]

\* NameMapper.unmap
NmUnmap(nm, kind, alias) ==
    IF kind \in DOMAIN nm.inverse /\ DictHas(nm.inverse[kind], alias)
    THEN DictGet(nm.inverse[kind], alias)
    ELSE alias

----------------------------------------------------------------------------
(* SEGMENT_RE: --[^\n]*\n? | /\*.*?\*/ | '(?:''|[^'])*' | "(?:""|[^"])*"  *)

\* first index >= i where the literal pat starts, 0 when none
FindStr(s, i, pat) ==
    LET hits == {j \in i..Len(s) : LitAt(s, j, pat, FALSE)}
    IN  IF hits = {} THEN 0 ELSE Min(hits)

\* --[^\n]*\n? at i: the index of its last character, 0 when no match
LineCommentEnd(s, i) ==
    IF ~LitAt(s, i, "--", FALSE) THEN 0
    ELSE LET UpTo(nl) == IF nl = 0 THEN Len(s) ELSE nl
         IN  UpTo(FindStr(s, i + 2, "\n"))

\* /\*.*?\*/ (DOTALL) at i
BlockCommentEnd(s, i) ==
    IF ~LitAt(s, i, "/*", FALSE) THEN 0
    ELSE LET UpTo(close) == IF close = 0 THEN 0 ELSE close + 1
         IN  UpTo(FindStr(s, i + 2, "*/"))

\* q(?:qq|[^q])*q at i.  The star is greedy and takes a doubled quote as one
\* item, so of a run of quotes after the opening one it takes the pairs: the
\* match closes at the last quote of the first run of odd length.  When the
\* text has no such run, backtracking gives up the last doubled pair and
\* closes at its first quote; with no quote at all after i there is no match.
QuotedEnd(s, i, q) ==
    IF ~(i <= Len(s) /\ Ch(s, i) = q) THEN 0
    ELSE LET runEnd(r) == SkipChars(s, r, {q}) - 1
             Close(runs_, odd) ==
                 IF odd # {} THEN runEnd(Min(odd))
                 ELSE IF runs_ = {} THEN 0
                 ELSE runEnd(Max(runs_)) - 1
             OfRuns(runs_) == Close(runs_, {r \in runs_ : (runEnd(r) - r + 1) % 2 = 1})
         IN  OfRuns({r \in (i + 1)..Len(s) :
                        Ch(s, r) = q /\ (r = i + 1 \/ Ch(s, r - 1) # q)})

\* SEGMENT_RE matched at i: the alternatives in their order
SegMatchEnd(s, i) ==
    LET First(line, block, single, double) ==
            IF line > 0 THEN line
            ELSE IF block > 0 THEN block
            ELSE IF single > 0 THEN single
            ELSE double
    IN  First(LineCommentEnd(s, i), BlockCommentEnd(s, i),
              QuotedEnd(s, i, "'"), QuotedEnd(s, i, "\""))

\* The walk of SEGMENT_RE.finditer in _apply_replacements_to_code_and_comments
\* and _scan_code_segments: the code before each match, the match, and the
\* suffix at the end.
RECURSIVE SegmentsFrom(_, _)
SegmentsFrom(s, last_idx) ==
    LET Match(i, e) ==
            << [kind |-> "code", text |-> SubSeq(s, last_idx, i - 1)],
               [kind |-> "seg", text |-> SubSeq(s, i, e)] >>
            \o SegmentsFrom(s, e + 1)
        Walk(ends) ==
            IF \A j \in DOMAIN ends : ends[j] = 0
            THEN << [kind |-> "code", text |-> SubSeq(s, last_idx, Len(s))] >>
            ELSE Match(Min({j \in DOMAIN ends : ends[j] > 0}),
                       ends[Min({j \in DOMAIN ends : ends[j] > 0})])
    IN  Walk([j \in last_idx..Len(s) |-> SegMatchEnd(s, j)])

Segments(s) == SegmentsFrom(s, 1)

_is_comment(segment) == LitAt(segment, 1, "--", FALSE) \/ LitAt(segment, 1, "/*", FALSE)

_is_stringNever(segment) == FALSE

_is_string(segment) ==
    \/ LitAt(segment, 1, "'", FALSE) /\ LitAt(segment, Len(segment), "'", FALSE)
    \/ LitAt(segment, 1, "\"", FALSE) /\ LitAt(segment, Len(segment), "\"", FALSE)

RECURSIVE Join(_)
Join(pieces) ==
    IF Len(pieces) = 0 THEN "" ELSE Head(pieces) \o Join(Tail(pieces))

----------------------------------------------------------------------------
(* Substitution rules and pattern.sub *)

\* \[\s*<pat>\s*\] at i: the index of "]", 0 when no match.  The first \s*
\* is greedy and gives back what the literal needs.
BracketMatchEnd(s, i, pat, icase) ==
    IF ~(i <= Len(s) /\ Ch(s, i) = "[") THEN 0
    ELSE LET closeAt(p) == SkipChars(s, p + Len(pat), SpaceChars)
             Closes(c) == c <= Len(s) /\ Ch(s, c) = "]"
             Last(ok) == IF ok = {} THEN 0 ELSE closeAt(Max(ok))
         IN  Last({p \in (i + 1)..SkipChars(s, i + 1, SpaceChars) :
                      LitAt(s, p, pat, icase) /\ Closes(closeAt(p))})

\* (?<![\w$])<pat>(?![\w$]) at i: the index of its last character, 0 when no match
BareMatchEnd(s, i, pat, icase) ==
    IF /\ Len(pat) > 0
       /\ (i = 1 \/ Ch(s, i - 1) \notin WordChars)
       /\ (i + Len(pat) > Len(s) \/ Ch(s, i + Len(pat)) \notin WordChars)
       /\ LitAt(s, i, pat, icase)
    THEN i + Len(pat) - 1
    ELSE 0

RuleMatchEnd(s, i, rule) ==
    IF rule.form = "bracket" THEN BracketMatchEnd(s, i, rule.pat, rule.icase)
    ELSE BareMatchEnd(s, i, rule.pat, rule.icase)

\* pattern.sub(rep, text): the leftmost match from i on is replaced, the
\* search goes on after it; starts holds the positions where the rule matches
RECURSIVE SubFrom(_, _, _, _)
SubFrom(s, i, rule, starts) ==
    LET Match(m) ==
            SubSeq(s, i, m - 1) \o rule.rep
            \o SubFrom(s, RuleMatchEnd(s, m, rule) + 1, rule, starts)
        Search(ahead) == IF ahead = {} THEN SubSeq(s, i, Len(s)) ELSE Match(Min(ahead))
    IN  Search({j \in starts : j >= i})

PatternSub(rule, text) ==
    SubFrom(text, 1, rule, {j \in 1..Len(text) : RuleMatchEnd(text, j, rule) > 0})

RECURSIVE _apply_all(_, _)
_apply_all(text, repls) ==
    IF Len(repls) = 0 THEN text
    ELSE _apply_all(PatternSub(Head(repls), text), Tail(repls))

\* the two rules add_kind appends for one dict item
RulePair(pat, rep, icase) ==
    << [form |-> "bracket", pat |-> pat, rep |-> "[" \o rep \o "]", icase |-> icase],
       [form |-> "bare", pat |-> pat, rep |-> rep, icase |-> icase] >>

RECURSIVE RulesOfDict(_, _)
RulesOfDict(d, icase) ==
    IF Len(d) = 0 THEN <<>>
    ELSE RulePair(d[1][1], d[1][2], icase) \o RulesOfDict(Tail(d), icase)

\* _build_replacements_forward raises KeyError on a registry that lacks a kind
ForwardRaises(nm) == \E k \in KindSet : k \notin DOMAIN nm.mapping

RECURSIVE ForwardFrom(_, _)
ForwardFrom(nm, ki) ==
    IF ki > Len(Kinds) THEN <<>>
    ELSE RulesOfDict(nm.mapping[Kinds[ki]], TRUE) \o ForwardFrom(nm, ki + 1)

_build_replacements_forward(nm) == ForwardFrom(nm, 1)

\* nm.inverse.get(kind, {})
RECURSIVE ReverseFrom(_, _)
ReverseFrom(nm, ki) ==
    IF ki > Len(Kinds) THEN <<>>
    ELSE (IF Kinds[ki] \in DOMAIN nm.inverse
          THEN RulesOfDict(nm.inverse[Kinds[ki]], FALSE) ELSE <<>>)
         \o ReverseFrom(nm, ki + 1)

\* the reverse rules compiled with flags=re.IGNORECASE, as the forward ones are
_build_replacements_reverseFolded(nm) ==
    [i \in 1..Len(ReverseFrom(nm, 1)) |-> [ReverseFrom(nm, 1)[i] EXCEPT !.icase = TRUE]]

_build_replacements_reverse(nm) == ReverseFrom(nm, 1)

\* the list "out" of _apply_replacements_to_code_and_comments, before the join
OutPieces(sql, repls) ==
    LET Piece(seg) ==
            IF seg.kind = "seg" /\ _is_string(seg.text) THEN seg.text
            ELSE _apply_all(seg.text, repls)
        Out(segs) == [i \in 1..Len(segs) |-> Piece(segs[i])]
    IN  Out(Segments(sql))

_apply_replacements_to_code_and_comments(sql, repls) == Join(OutPieces(sql, repls))

----------------------------------------------------------------------------
(* USE_DB_RE and the USE scan *)

\* [^\]\r\n;]
UseBracketStops == {"]", "\r", "\n", ";"}

SkipUntil(s, i, stops) ==
    CHOOSE j \in i..(Len(s) + 1) :
        /\ j = Len(s) + 1 \/ Ch(s, j) \in stops
        /\ \A k \in i..(j - 1) : Ch(s, k) \notin stops

\* \[\s*(?P<bracket>[^\]\r\n;]+)\s*\] at w.  The group is greedy: from its
\* start g it runs to the first stop character; \s* then "]" must follow.
\* The leading \s* is greedy and gives back blanks the group needs.
UseBracketMatch(s, w) ==
    IF ~(w <= Len(s) /\ Ch(s, w) = "[") THEN [end |-> 0, name |-> ""]
    ELSE LET groupEnd(g) == SkipUntil(s, g, UseBracketStops)
             closeAt(e) == SkipChars(s, e, SpaceChars)
             Closes(c) == c <= Len(s) /\ Ch(s, c) = "]"
             Group(g, e) == [end |-> closeAt(e), name |-> SubSeq(s, g, e - 1)]
             Last(ok) == IF ok = {} THEN [end |-> 0, name |-> ""]
                         ELSE Group(Max(ok), groupEnd(Max(ok)))
         IN  Last({g \in (w + 1)..SkipChars(s, w + 1, SpaceChars) :
                      groupEnd(g) > g /\ Closes(closeAt(groupEnd(g)))})

\* (?P<plain>[A-Za-z0-9_.$]+) at w
UsePlainMatch(s, w) ==
    LET e == SkipChars(s, w, UsePlainChars)
    IN  IF e > w THEN [end |-> e - 1, name |-> SubSeq(s, w, e - 1)]
        ELSE [end |-> 0, name |-> ""]

\* USE_DB_RE at i: \bUSE\s+( bracket | plain ), (?i)
UseMatch(s, i) ==
    LET Either(bracket, plain) == IF bracket.end > 0 THEN bracket ELSE plain
        Name(w) == IF w > i + 3 THEN Either(UseBracketMatch(s, w), UsePlainMatch(s, w))
                   ELSE [end |-> 0, name |-> ""]
    IN  IF LitAt(s, i, "USE", TRUE) /\ (i = 1 \/ Ch(s, i - 1) \notin RegexW)
        THEN Name(SkipChars(s, i + 3, SpaceChars))
        ELSE [end |-> 0, name |-> ""]

\* the names that _map_use_databases maps from one code segment, in order:
\* (m.group("bracket") or m.group("plain") or "").strip(), when not empty
RECURSIVE UseNamesFrom(_, _)
UseNamesFrom(code, i) ==
    LET Name(db) == IF db # "" THEN <<db>> ELSE <<>>
        Match(m) == Name(Strip(m.name)) \o UseNamesFrom(code, m.end + 1)
        Walk(ms) ==
            IF \A j \in DOMAIN ms : ms[j].end = 0 THEN <<>>
            ELSE Match(ms[Min({j \in DOMAIN ms : ms[j].end > 0})])
    IN  Walk([j \in i..Len(code) |-> UseMatch(code, j)])

\* over the code segments that _scan_code_segments yields
RECURSIVE UseNamesOfSegments(_)
UseNamesOfSegments(segs) ==
    IF Len(segs) = 0 THEN <<>>
    ELSE (IF Head(segs).kind = "code" THEN UseNamesFrom(Head(segs).text, 1) ELSE <<>>)
         \o UseNamesOfSegments(Tail(segs))

UseNames(sql) == UseNamesOfSegments(Segments(sql))

\* nm.map over a list of <<kind, original>>, stopping at the first KeyError
RECURSIVE MapAll(_, _)
MapAll(nm, regs) ==
    LET Then(r) == IF r.err THEN [nm |-> r.nm, err |-> TRUE]
                   ELSE MapAll(r.nm, Tail(regs))
    IN  IF Len(regs) = 0 THEN [nm |-> nm, err |-> FALSE]
        ELSE Then(NmMap(nm, Head(regs)[1], Head(regs)[2]))

_map_use_databases(sql, nm) ==
    LET Databases(names) == [i \in 1..Len(names) |-> <<"database", names[i]>>]
    IN  MapAll(nm, Databases(UseNames(sql)))

----------------------------------------------------------------------------
(* _extract_mapping.  The parser (sqlglot.parse_one on the text without its *)
(* USE statements) is not part of the program: its answer is an input,     *)
(* either ParseError or Parsed(nodes), the Table and Column nodes of the   *)
(* tree in the order _visit meets them.                                    *)

ParseError == [ok |-> FALSE, nodes |-> <<>>]
Parsed(nodes) == [ok |-> TRUE, nodes |-> nodes]

\* the nm.map calls _visit makes at one node
VisitNode(node) ==
    IF node.type = "Table"
    THEN (IF node.catalog # "" THEN << <<"database", node.catalog>> >> ELSE <<>>)
         \o (IF node.db # "" THEN << <<"schema", node.db>> >> ELSE <<>>)
         \o (IF node.name # "" THEN << <<"table", node.name>> >> ELSE <<>>)
    ELSE (IF node.name # "" THEN << <<"column", node.name>> >> ELSE <<>>)

RECURSIVE VisitAll(_)
VisitAll(nodes) ==
    IF Len(nodes) = 0 THEN <<>> ELSE VisitNode(Head(nodes)) \o VisitAll(Tail(nodes))

_extract_mappingLosesUse(sql, nm, tree) ==
    LET Visit(u) == IF u.err THEN u ELSE MapAll(u.nm, VisitAll(tree.nodes))
    IN  IF ~tree.ok THEN [nm |-> nm, err |-> FALSE]
        ELSE Visit(_map_use_databases(sql, nm))

_extract_mapping(sql, nm, tree) ==
    LET Visit(u) == IF u.err \/ ~tree.ok THEN u
                    ELSE MapAll(u.nm, VisitAll(tree.nodes))
    IN  Visit(_map_use_databases(sql, nm))

\* anonymize_sql: the registry afterwards, whether an exception left the
\* function, and (when none did) the list "out" and the text returned
anonymize_sql(sql, nm, tree) ==
    LET Return(m, out) == [nm |-> m, err |-> FALSE, out |-> out, text |-> Join(out)]
        Rewrite(x) ==
            IF x.err \/ ForwardRaises(x.nm)
            THEN [nm |-> x.nm, err |-> TRUE, out |-> <<>>, text |-> ""]
            ELSE Return(x.nm, OutPieces(sql, _build_replacements_forward(x.nm)))
    IN  Rewrite(_extract_mapping(sql, nm, tree))

\* deanonymize_sql
deanonymize_sql(sql, nm) ==
    LET Return(out) == [out |-> out, text |-> Join(out)]
    IN  Return(OutPieces(sql, _build_replacements_reverse(nm)))

----------------------------------------------------------------------------
(* The input control of the two button handlers *)

\* text.splitlines(), for texts whose only line break is "\n"
RECURSIVE SplitLines(_)
SplitLines(text) ==
    LET Cut(nl) ==
            IF nl = 0 THEN <<text>>
            ELSE <<SubSeq(text, 1, nl - 1)>> \o SplitLines(SubSeq(text, nl + 1, Len(text)))
    IN  IF text = "" THEN <<>> ELSE Cut(FindStr(text, 1, "\n"))

Keywords ==
    {"SELECT", "WITH", "UPDATE", "INSERT", "DELETE", "MERGE", "CREATE", "ALTER",
     "DROP", "TRUNCATE", "EXEC", "DECLARE", "BEGIN", "USE"}

\* SQL_START_RE.search(line): ^\s*(SELECT|...|USE)\b, IGNORECASE
SQL_START_RE(line) ==
    LET At(w) ==
            \E kw \in Keywords :
                /\ LitAt(line, w, kw, TRUE)
                /\ (w + Len(kw) > Len(line) \/ Ch(line, w + Len(kw)) \notin RegexW)
    IN  At(SkipChars(line, 1, SpaceChars))

\* _first_non_comment_code_line: the index (from 1) of the first line that is
\* neither blank nor starts with -- or /*, 0 when there is none
RECURSIVE FirstCodeLineFrom(_, _)
FirstCodeLineFrom(lines, i) ==
    LET Skip(st) == st = "" \/ _is_comment(st)
    IN  IF i > Len(lines) THEN 0
        ELSE IF Skip(Strip(lines[i])) THEN FirstCodeLineFrom(lines, i + 1)
        ELSE i

_first_non_comment_code_line(text) == FirstCodeLineFrom(SplitLines(text), 1)

\* _find_first_sql_statement_start, 0 when there is none
RECURSIVE FirstSqlLineFrom(_, _)
FirstSqlLineFrom(lines, i) ==
    IF i > Len(lines) THEN 0
    ELSE IF SQL_START_RE(lines[i]) THEN i
    ELSE FirstSqlLineFrom(lines, i + 1)

_find_first_sql_statement_start(text) == FirstSqlLineFrom(SplitLines(text), 1)

\* "\n".join(lines[from:])
RECURSIVE JoinLines(_, _)
JoinLines(lines, from) ==
    IF from > Len(lines) THEN ""
    ELSE IF from = Len(lines) THEN lines[from]
    ELSE lines[from] \o "\n" \o JoinLines(lines, from + 1)

\* What the handler does with the pasted text before it calls the rewrite:
\* go |-> FALSE when it warns or stops, else the text it goes on with.
InputControl(text, auto_clean) ==
    LET Clean(lines, start) ==
            IF auto_clean /\ start # 0
            THEN [go |-> TRUE, sql |-> JoinLines(lines, start)]
            ELSE [go |-> FALSE, sql |-> text]
        Control(lines, first) ==
            IF first # 0 /\ ~SQL_START_RE(lines[first])
            THEN Clean(lines, _find_first_sql_statement_start(text))
            ELSE [go |-> TRUE, sql |-> text]
    IN  IF Strip(text) = "" THEN [go |-> FALSE, sql |-> text]
        ELSE Control(SplitLines(text), _first_non_comment_code_line(text))

----------------------------------------------------------------------------
(* NameMapper.from_json on an uploaded document *)

\* An uploaded document, as far as from_json looks at it: typed |-> FALSE when
\* json.loads, obj.get or d.items() raises (not JSON, not an object, a mapping
\* that is not an object of objects); otherwise the "mapping" and "prefixes"
\* members, each absent or an object over some of the kinds.
Doc(typed, hasMapping, mapping, hasPrefixes, prefixes) ==
    [typed |-> typed, hasMapping |-> hasMapping, mapping |-> mapping,
     hasPrefixes |-> hasPrefixes, prefixes |-> prefixes]

NoMembers == [k \in {} |-> <<>>]

\* "x or default": None and the empty dict are falsy
from_json(doc) ==
    NameMapperInit(
        IF doc.hasMapping /\ DOMAIN doc.mapping # {} THEN doc.mapping
        ELSE [k \in KindSet |-> <<>>],
        IF doc.hasPrefixes /\ DOMAIN doc.prefixes # {} THEN doc.prefixes
        ELSE DEFAULT_PREFIXES)

----------------------------------------------------------------------------
(* Bounds and inputs *)

\* reruns of the script (user interactions) in one session
MaxReruns == 2

\* calls in a run of the registry alone
MaxCalls == 4

\* entries of one role in the run that drives one counter past 10
DriftEntries == 11

\* prefix edits in that run
DriftEdits == 2

Table(catalog, db, name) == [type |-> "Table", catalog |-> catalog, db |-> db, name |-> name]
Column(name) == [type |-> "Column", name |-> name]

Paste(text, auto_clean, tree) == [text |-> text, auto_clean |-> auto_clean, tree |-> tree]

ColNames == {"Id", "person", "DB_1"}

\* a table reference as written, and the Table node the parser makes of it;
\* for a bracketed name with inner blanks both readings of the parser
TabRefs ==
    { [text |-> "Person", node |-> Table("", "", "Person")],
      [text |-> "Person.Person", node |-> Table("", "Person", "Person")],
      [text |-> "[ Person ]", node |-> Table("", "", "Person")],
      [text |-> "[ Person ]", node |-> Table("", "", " Person ")] }

QueryOf(c, t) ==
    Paste("SELECT " \o c \o " FROM " \o t.text \o " WHERE " \o c \o " = 'Person' -- Person",
          TRUE,
          Parsed(<< Column(c), t.node, Column(c) >>))

ScenarioSql ==
    "SELECT p.PersonID, p.LastName FROM AdventureWorks2019.Person.Person AS p WHERE p.LastName = 'Smith';"

ScenarioTree ==
    Parsed(<< Column("PersonID"), Column("LastName"),
              Table("AdventureWorks2019", "Person", "Person"), Column("LastName") >>)

UseSql == "USE AdventureWorks2019\nSELECT TOP 10 * FROM [dbo].[Person]"

BrokenSql == "USE [ Shop ] SELECT (( FROM Person"

JunkSql == "Voici ma requete :\nSELECT \"Id\" FROM Person /* Id */"

\* a table whose name is spelled like the first pseudonym of the columns
ShadowSql == "SELECT Id FROM C_1 -- Id of C_1"

Pastes ==
    { QueryOf(c, t) : c \in ColNames, t \in TabRefs }
    \cup { Paste(ScenarioSql, TRUE, ScenarioTree),
           Paste(UseSql, TRUE, Parsed(<< Table("", "dbo", "Person") >>)),
           Paste(UseSql, TRUE, ParseError),
           Paste(BrokenSql, TRUE, ParseError),
           Paste(ShadowSql, TRUE, Parsed(<< Column("Id"), Table("", "", "C_1") >>)),
           Paste(JunkSql, TRUE, Parsed(<< Column("Id"), Table("", "", "Person") >>)),
           Paste(JunkSql, FALSE, Parsed(<< Column("Id"), Table("", "", "Person") >>)) }

\* texts pasted into the second box, beside the anonymized text itself
RestoreTexts ==
    { "SELECT T_9, db_1, C_1 FROM [ T_1 ] WHERE x = 'T_1' -- T_1",
      "SELECT \"DB_1\", DB_1 FROM SC_1.T_1" }

PrefixChoices(kind) ==
    CASE kind = "table" -> {"T_", "T_1"}
      [] kind = "column" -> {"C_", "T_"}
      [] OTHER -> {DEFAULT_PREFIXES[kind]}

AllKinds(d) == [k \in KindSet |-> IF k \in DOMAIN d THEN d[k] ELSE <<>>]

Uploads ==
    { Doc(FALSE, FALSE, NoMembers, FALSE, NoMembers),
      Doc(TRUE, TRUE, AllKinds([table |-> << <<"Person", "T_1">> >>]), TRUE, DEFAULT_PREFIXES),
      Doc(TRUE, TRUE, AllKinds([table |-> << <<"Orders", "T_2">> >>]), TRUE, DEFAULT_PREFIXES),
      Doc(TRUE, TRUE, [table |-> << <<"Person", "T_1">> >>], TRUE, DEFAULT_PREFIXES),
      Doc(TRUE, TRUE, AllKinds([table |-> << <<"Person", "T_1">> >>]), FALSE, NoMembers),
      Doc(TRUE, TRUE, AllKinds([table |-> << <<"Person", "T_1">> >>]), TRUE, [table |-> "X_"]) }

\* names given to NameMapper.map in the runs of the registry alone
RegNames == {"Person", "person"}

FreshName(i) == "n" \o IntToStr(i)

----------------------------------------------------------------------------
(* State machine *)

NoOp ==
    [op |-> "init", go |-> FALSE, sql |-> "", tree |-> ParseError, before |-> EmptyMapper,
     err |-> FALSE, out |-> <<>>, kind |-> "", original |-> "", ret |-> "",
     again |-> FALSE, doc |-> Doc(FALSE, FALSE, NoMembers, FALSE, NoMembers)]

HasEntries(nm) == \E k \in DOMAIN nm.mapping : Len(nm.mapping[k]) > 0

\* the loop over the four text_input widgets runs at the top of every rerun
\* and raises KeyError on a registry whose prefixes lack a kind
PrefixLoopOk == KindSet \subseteq DOMAIN name_mapper.prefixes

Init ==
    /\ name_mapper = EmptyMapper
    /\ anonym_sql = ""
    /\ deanon_sql = ""
    /\ anon_src = ""
    /\ anon_fresh = FALSE
    /\ runs = 0
    /\ last = NoOp

\* the user edits one prefix box
SetPrefix(kind, p) ==
    /\ PrefixLoopOk
    /\ name_mapper' = [name_mapper EXCEPT !.prefixes[kind] = p]
    /\ runs' = runs + 1
    /\ last' = [NoOp EXCEPT !.op = "prefix", !.kind = kind, !.ret = p, !.before = name_mapper]
    /\ UNCHANGED <<anonym_sql, deanon_sql, anon_src, anon_fresh>>

\* the user uploads a mapping file
Import(doc) ==
    /\ PrefixLoopOk
    /\ name_mapper' = IF doc.typed THEN from_json(doc) ELSE name_mapper
    /\ anon_fresh' = IF doc.typed THEN FALSE ELSE anon_fresh
    /\ runs' = runs + 1
    /\ last' = [NoOp EXCEPT !.op = "import", !.doc = doc, !.err = ~doc.typed,
                            !.before = name_mapper]
    /\ UNCHANGED <<anonym_sql, deanon_sql, anon_src>>

\* history: the rerun before this one anonymized the same text, with the same
\* answer of the parser, and returned a text
SameAgain(sql, tree) ==
    /\ last.op = "anonymize"
    /\ last.go
    /\ ~last.err
    /\ last.sql = sql
    /\ last.tree = tree

\* the button "Anonymiser"
Anonymize(paste) ==
    /\ PrefixLoopOk
    /\ \E c \in {InputControl(paste.text, paste.auto_clean)} :
         \E base \in {[NoOp EXCEPT !.op = "anonymize", !.go = c.go, !.sql = c.sql,
                                   !.tree = paste.tree, !.before = name_mapper]} :
           IF ~c.go
           THEN /\ last' = base
                /\ UNCHANGED <<name_mapper, anonym_sql, anon_src, anon_fresh>>
           ELSE \E r \in {anonymize_sql(c.sql, name_mapper, paste.tree)} :
                /\ name_mapper' = r.nm
                /\ anonym_sql' = IF r.err THEN anonym_sql ELSE r.text
                /\ anon_src' = IF r.err THEN anon_src ELSE c.sql
                /\ anon_fresh' = IF r.err THEN anon_fresh ELSE ~HasEntries(name_mapper)
                /\ last' = [base EXCEPT !.err = r.err, !.out = r.out, !.ret = r.text,
                                        !.again = SameAgain(c.sql, paste.tree)]
    /\ runs' = runs + 1
    /\ UNCHANGED deanon_sql

\* the button "Deanonymiser"
Deanonymize(paste) ==
    /\ PrefixLoopOk
    /\ \E c \in {InputControl(paste.text, paste.auto_clean)} :
         \E base \in {[NoOp EXCEPT !.op = "deanonymize", !.go = c.go, !.sql = c.sql,
                                   !.before = name_mapper]} :
           IF ~c.go
           THEN /\ last' = base
                /\ UNCHANGED deanon_sql
           ELSE \E r \in {deanonymize_sql(c.sql, name_mapper)} :
                /\ deanon_sql' = r.text
                /\ last' = [base EXCEPT !.out = r.out, !.ret = r.text]
    /\ runs' = runs + 1
    /\ UNCHANGED <<name_mapper, anonym_sql, anon_src, anon_fresh>>

\* one call of NameMapper.map on the session registry
Map(kind, original) ==
    /\ \E r \in {NmMap(name_mapper, kind, original)} :
           /\ name_mapper' = r.nm
           /\ last' = [NoOp EXCEPT !.op = "map", !.kind = kind, !.original = original,
                                   !.ret = r.ret, !.err = r.err, !.before = name_mapper]
    /\ runs' = runs + 1
    /\ UNCHANGED <<anonym_sql, deanon_sql, anon_src, anon_fresh>>

RestorePastes == {Paste(t, TRUE, ParseError) : t \in RestoreTexts \cup {anonym_sql}}

Rerun == runs < MaxReruns

Next ==
    \/ \E k \in KindSet : \E p \in PrefixChoices(k) : Rerun /\ SetPrefix(k, p)
    \/ \E paste \in Pastes : Rerun /\ Anonymize(paste)
    \/ \E paste \in RestorePastes : Rerun /\ Deanonymize(paste)

Spec == Init /\ [][Next]_vars

NextImport ==
    \/ \E k \in KindSet : \E p \in PrefixChoices(k) : Rerun /\ SetPrefix(k, p)
    \/ \E doc \in Uploads : Rerun /\ Import(doc)
    \/ \E paste \in Pastes : Rerun /\ Anonymize(paste)
    \/ \E paste \in RestorePastes : Rerun /\ Deanonymize(paste)

SpecImport == Init /\ [][NextImport]_vars

NextReg ==
    \/ \E k \in KindSet : \E p \in PrefixChoices(k) : runs < MaxCalls /\ SetPrefix(k, p)
    \/ \E k \in KindSet : \E x \in RegNames : runs < MaxCalls /\ Map(k, x)

SpecReg == Init /\ [][NextReg]_vars

\* the registry alone, one role, until its counter has two digits: the next
\* new name or the first one again, and edits of the role's prefix
DriftRun == runs < DriftEntries + DriftEdits

NextDrift ==
    \/ \E p \in PrefixChoices("table") \ {name_mapper.prefixes["table"]} :
           DriftRun /\ SetPrefix("table", p)
    \/ \E i \in {1, Len(name_mapper.mapping["table"]) + 1} \cap 1..DriftEntries :
           DriftRun /\ Map("table", FreshName(i))

SpecDrift == Init /\ [][NextDrift]_vars

----------------------------------------------------------------------------
(* Properties *)

\* the segments of the text the last operation rewrote
LastSegments == Segments(last.sql)

\* the last operation called the rewrite and the rewrite returned
Rewrote(op) == last.op = op /\ last.go /\ ~last.err

\* a segment SEGMENT_RE matched that opens with a quote: a string literal
IsLiteral(seg) == seg.kind = "seg" /\ Ch(seg.text, 1) \in {"'", "\""}

\* the elements of a set of indices in increasing order
SortedSeq(S) ==
    [k \in 1..Cardinality(S) |-> CHOOSE i \in S : Cardinality({j \in S : j <= i}) = k]

\* the identifier tokens of a text: its maximal runs of [\w$]
WordTokens(s) ==
    LET Tokens(at) == [k \in 1..Len(at) |->
                          SubSeq(s, at[k], SkipChars(s, at[k], WordChars) - 1)]
    IN  Tokens(SortedSeq({i \in 1..Len(s) :
                             /\ Ch(s, i) \in WordChars
                             /\ (i = 1 \/ Ch(s, i - 1) \notin WordChars)}))

\* a occurs in b as a subsequence (same order, other elements in between)
RECURSIVE IsSubseq(_, _)
IsSubseq(a, b) ==
    IF Len(a) = 0 THEN TRUE
    ELSE IF Len(b) = 0 THEN FALSE
    ELSE IF Head(a) = Head(b) THEN IsSubseq(Tail(a), Tail(b))
    ELSE IsSubseq(a, Tail(b))

\* the pseudonyms a registry holds, under any role
Pseudonyms(nm) == UNION {DictKeys(nm.inverse[k]) : k \in DOMAIN nm.inverse}

\* the tokens of a text that are no pseudonym of the registry (exact case)
UnknownTokens(s, nm) == SelectSeq(WordTokens(s), LAMBDA w : w \notin Pseudonyms(nm))

\* every entry of d is an entry of e, at the same place
Extends(d, e) == Len(d) <= Len(e) /\ \A i \in 1..Len(d) : e[i] = d[i]

\* C1: the text restored from the anonymized text, with the registry the
\* anonymization left and starting from a registry without entries, is the
\* text that was anonymized.
C1_RoundTrip ==
    (Rewrote("deanonymize") /\ anon_fresh /\ last.sql = anonym_sql)
        => deanon_sql = anon_src

\* C2: a string literal of the input is the element at the same position of
\* the output of anonymize and of restore, unchanged.
C2_LiteralsUnchanged ==
    (Rewrote("anonymize") \/ Rewrote("deanonymize")) =>
        /\ Len(last.out) = Len(LastSegments)
        /\ \A i \in 1..Len(LastSegments) :
               IsLiteral(LastSegments[i]) => last.out[i] = LastSegments[i].text

\* a literal spelled like a registered original name went through anonymize,
\* which rewrote the text around it
C2_Witness ==
    /\ Rewrote("anonymize")
    /\ last.ret # last.sql
    /\ \E i \in 1..Len(LastSegments) :
           /\ LastSegments[i].text = "'Person'"
           /\ DictHas(name_mapper.mapping["table"], "Person")
           /\ last.out[i] = "'Person'"

\* C3: with an empty registry and the default prefixes, the query on
\* AdventureWorks2019.Person.Person becomes the one on DB_1.SC_1.T_1 with the
\* columns C_1 and C_2; the alias p and the literal 'Smith' stay.
C3_RolesAreNamespaces ==
    (last.op = "anonymize" /\ last.sql = ScenarioSql /\ last.tree = ScenarioTree
        /\ last.before = EmptyMapper)
    => (/\ ~last.err
        /\ last.ret = "SELECT p.C_1, p.C_2 FROM DB_1.SC_1.T_1 AS p WHERE p.C_2 = 'Smith';")

\* C4: in every state of the registry reached by map calls and prefix edits,
\* per role: the pseudonyms are pairwise distinct, the inverse map holds
\* exactly the swapped pairs of the forward map, and unmap gives back the
\* name of every entry.
C4_InverseInvariant ==
    \A k \in DOMAIN name_mapper.mapping :
        LET fwd == name_mapper.mapping[k]
            inv == name_mapper.inverse[k]
        IN  /\ Cardinality(DictValues(fwd)) = Len(fwd)
            /\ {<<inv[i][2], inv[i][1]>> : i \in 1..Len(inv)} = {fwd[i] : i \in 1..Len(fwd)}
            /\ \A i \in 1..Len(fwd) : NmUnmap(name_mapper, k, fwd[i][2]) = fwd[i][1]

\* C5: on a registry loaded from an accepted snapshot, every pseudonym a
\* later map call creates in a role differs from the pseudonyms the snapshot
\* gave for that role.
C5_ImportExtends ==
    (last.op = "anonymize" /\ last.before \in {from_json(d) : d \in {u \in Uploads : u.typed}})
    => \A k \in DOMAIN name_mapper.mapping :
           \A i \in (Len(last.before.mapping[k]) + 1)..Len(name_mapper.mapping[k]) :
               name_mapper.mapping[k][i][2] \notin DictValues(last.before.mapping[k])

\* C6: no step changes or removes an entry; after any step, map on a name
\* that had an entry returns the pseudonym of that entry and leaves the
\* registry as it is; and anonymize on the text and registry state that the
\* step before anonymized returns the same text and changes nothing.
C6_Stable ==
    [][ /\ \A k \in DOMAIN name_mapper.mapping :
              /\ k \in DOMAIN name_mapper'.mapping
              /\ Extends(name_mapper.mapping[k], name_mapper'.mapping[k])
              /\ \A i \in 1..Len(name_mapper.mapping[k]) :
                     NmMap(name_mapper', k, name_mapper.mapping[k][i][1])
                         = [nm |-> name_mapper', ret |-> name_mapper.mapping[k][i][2],
                            err |-> FALSE]
        /\ (last'.op = "anonymize" /\ last'.again)
               => (/\ ~last'.err
                   /\ last'.ret = last.ret
                   /\ name_mapper' = name_mapper)
      ]_vars

\* the same text was anonymized twice in a row, on a registry with entries
C6_Witness ==
    /\ last.op = "anonymize"
    /\ last.again
    /\ HasEntries(last.before)
    /\ last.ret # last.sql

\* C7: restore leaves the registry unchanged; the tokens of a segment that
\* are no pseudonym of the registry in exact case are tokens of the output,
\* in their order; a segment without any token that is a pseudonym of the
\* registry is output unchanged.
C7_RestoreFrame ==
    last.op = "deanonymize" =>
        /\ name_mapper = last.before
        /\ last.go =>
               /\ Len(last.out) = Len(LastSegments)
               /\ \A i \in 1..Len(LastSegments) :
                      /\ IsSubseq(UnknownTokens(LastSegments[i].text, name_mapper),
                                  WordTokens(last.out[i]))
                      /\ UnknownTokens(LastSegments[i].text, name_mapper)
                             = WordTokens(LastSegments[i].text)
                         => last.out[i] = LastSegments[i].text

\* restore ran on a text with T_9 and db_1 while the registry holds DB_1 and
\* a table pseudonym, and rewrote the text
C7_Witness ==
    /\ Rewrote("deanonymize")
    /\ {"T_9", "db_1"} \subseteq {WordTokens(last.sql)[i] : i \in 1..Len(WordTokens(last.sql))}
    /\ DictHas(name_mapper.inverse["database"], "DB_1")
    /\ DictHas(name_mapper.inverse["table"], "T_1")
    /\ last.ret # last.sql
    /\ {"T_9", "db_1"} \subseteq {WordTokens(last.ret)[i] : i \in 1..Len(WordTokens(last.ret))}

\* C8: when the parser rejects the text, anonymize returns; the registry is
\* the one before plus the database names of the USE scan, no earlier entry
\* is removed, and the text returned is the forward rewrite under that registry.
C8_ParserFailureRecovered ==
    (last.op = "anonymize" /\ last.go /\ ~last.tree.ok) =>
        /\ ~last.err
        /\ name_mapper = _map_use_databases(last.sql, last.before).nm
        /\ \A n \in {UseNames(last.sql)[i] : i \in 1..Len(UseNames(last.sql))} :
               DictHas(name_mapper.mapping["database"], n)
        /\ \A k \in KindSet : Extends(last.before.mapping[k], name_mapper.mapping[k])
        /\ last.ret = _apply_replacements_to_code_and_comments(
                          last.sql, _build_replacements_forward(name_mapper))

\* the parser rejected a text with a USE statement: its database is
\* registered and rewritten in the text returned
C8_Witness ==
    /\ Rewrote("anonymize")
    /\ ~last.tree.ok
    /\ last.sql = BrokenSql
    /\ DictHas(name_mapper.mapping["database"], "Shop")
    /\ ~DictHas(last.before.mapping["database"], "Shop")
    /\ last.ret # last.sql

\* a document from_json must not accept: not an object, a mapping that lacks
\* a role, prefixes missing or lacking a role
Malformed(doc) ==
    \/ ~doc.typed
    \/ doc.hasMapping /\ DOMAIN doc.mapping # KindSet
    \/ ~doc.hasPrefixes
    \/ DOMAIN doc.prefixes # KindSet

\* C9: an import of a malformed document reports an error and leaves the
\* session registry as it was; the session registry never lacks a role.
C9_MalformedRejected ==
    /\ (last.op = "import" /\ Malformed(last.doc))
           => (last.err /\ name_mapper = last.before)
    /\ DOMAIN name_mapper.mapping = KindSet
    /\ DOMAIN name_mapper.prefixes = KindSet

\* C10: map on a spelling that differs only in letter case from a name of
\* the role returns that name's pseudonym and adds no entry: a role never
\* holds two entries whose names are equal up to letter case.
C10_CaseInsensitive ==
    /\ \A k \in DOMAIN name_mapper.mapping :
           \A i, j \in 1..Len(name_mapper.mapping[k]) :
               EqFold(name_mapper.mapping[k][i][1], name_mapper.mapping[k][j][1]) => i = j
    /\ last.op = "map" =>
           \A i \in 1..Len(last.before.mapping[last.kind]) :
               EqFold(last.before.mapping[last.kind][i][1], last.original)
                   => (/\ last.ret = last.before.mapping[last.kind][i][2]
                       /\ name_mapper.mapping = last.before.mapping)

\* the original names a registry holds, under any role
Originals(nm) == UNION {DictKeys(nm.mapping[k]) : k \in DOMAIN nm.mapping}

\* a text shows a name: one of its identifier tokens is the name, in any
\* letter case (a bracketed name is such a token between its brackets)
Shows(text, name) ==
    \E i \in 1..Len(WordTokens(text)) : EqFold(WordTokens(text)[i], name)

\* C11: after anonymize returns, no original name of the resulting registry
\* is an identifier token, in any letter case, of a code or comment segment
\* of the text returned.
C11_NoNameExposed ==
    Rewrote("anonymize") =>
        \A i \in 1..Len(last.out) :
            ~IsLiteral(LastSegments[i]) =>
                \A name \in Originals(name_mapper) : ~Shows(last.out[i], name)

====
